---- MODULE Spec2Model ----
(***************************************************************************)
(* Model of the personal-tools scripts:                                    *)
(*   generate_risky_csv.py  the risky-cell sampler and the CSV generator   *)
(*   omarchy_check.py / arch_check.py  the lock/temp file scanners         *)
(*   bootstrap.py           the command wrapper, the init / install-reqs   *)
(*                          commands and the exit-code mapping             *)
(* The scripts share no state; each has its own specification over its own *)
(* variables, the other variables staying at their initial values.         *)
(* Text is modelled as a sequence of one-character strings.                *)
(***************************************************************************)
EXTENDS Integers, Sequences, FiniteSets, TLC

(***************************************************************************)
(* Bounds of the model.                                                    *)
(***************************************************************************)
\* random.random() is modelled on a grid: the draw k stands for u = k/Grid,
\* and a threshold f stands for f/Grid.
Grid == 5
\* random.randint(low, high) is sampled within Spread of either end.
Spread == 2
\* largest magnitude of the non-default range ends tried for low and high
MaxAbs == 2
\* largest rows / cols arguments of generate_csv
MaxRows == 2
MaxCols == 2

(***************************************************************************)
(* Program constants of generate_risky_csv.py.                             *)
(***************************************************************************)
DefaultLow == 1
DefaultHigh == 10000
\* flag1 = 0.2 and flag2 = 0.4 on the grid
DefaultFlag1 == (2 * Grid) \div 10
DefaultFlag2 == (4 * Grid) \div 10

safe_text ==
    << <<"i", "n", "v", "o", "i", "c", "e">>,
       <<"p", "a", "y", "m", "e", "n", "t">>,
       <<"s", "u", "m", "m", "a", "r", "y">>,
       <<"n", "o", "t", "e">>,
       <<"v", "a", "l", "u", "e">>,
       <<"d", "e", "s", "c", "r", "i", "p", "t", "i", "o", "n">>,
       <<"u", "p", "d", "a", "t", "e">>,
       <<"r", "e", "c", "o", "r", "d">>,
       <<"c", "u", "s", "t", "o", "m", "e", "r">>,
       <<"p", "o", "r", "t", "f", "o", "l", "i", "o">> >>

formula_like ==
    << <<"=", "S", "U", "M", "(", "A", "1", ":", "A", "3", ")">>,
       <<"+", "A", "V", "G", "(", "B", "2", ":", "B", "1", "0", ")">>,
       <<"-", "1", "2", "3", "4", "5">>,
       <<"@", "H", "Y", "P", "E", "R", "L", "I", "N", "K", "(", "'", "u", "r", "l", "'", ")">>,
       <<"=", "C", "M", "D", "(", "'", "e", "x", "a", "m", "p", "l", "e", "'", ")">>,
       <<"+", "O", "P", "E", "N", "(", "'", "f", "i", "l", "e", "'", ")">>,
       <<"-", "C", "A", "L", "C", "(", ")">>,
       <<"@", "S", "H", "E", "L", "L", "(", "'", "c", "m", "d", "'", ")">> >>

(***************************************************************************)
(* Text helpers: str(int), int(str), membership in a pool.                 *)
(***************************************************************************)
DigitChars == <<"0", "1", "2", "3", "4", "5", "6", "7", "8", "9">>

Range(s) == {s[i] : i \in 1..Len(s)}

Min(a, b) == IF a <= b THEN a ELSE b
Max(a, b) == IF a >= b THEN a ELSE b

RECURSIVE Digits(_)
Digits(n) ==
    IF n < 10 THEN <<DigitChars[n + 1]>>
    ELSE Digits(n \div 10) \o <<DigitChars[(n % 10) + 1]>>

\* Python's str() of an int
Str(n) == IF n < 0 THEN <<"-">> \o Digits(0 - n) ELSE Digits(n)

IsDigit(c) == c \in Range(DigitChars)

DigitValue(c) == (CHOOSE d \in 1..10 : DigitChars[d] = c) - 1

AllDigits(s) == Len(s) >= 1 /\ \A i \in 1..Len(s) : IsDigit(s[i])

\* a string made only of decimal digits, optionally signed
IsNumeric(s) ==
    /\ Len(s) >= 1
    /\ IF s[1] \in {"-", "+"} THEN AllDigits(Tail(s)) ELSE AllDigits(s)

RECURSIVE DigitsValue(_)
DigitsValue(s) ==
    IF Len(s) = 0 THEN 0
    ELSE 10 * DigitsValue(SubSeq(s, 1, Len(s) - 1)) + DigitValue(s[Len(s)])

\* Python's int() of a numeric string
ParseInt(s) ==
    IF s[1] = "-" THEN 0 - DigitsValue(Tail(s))
    ELSE IF s[1] = "+" THEN DigitsValue(Tail(s))
    ELSE DigitsValue(s)

(***************************************************************************)
(* random_cell (generate_risky_csv.py:22-29).                              *)
(***************************************************************************)
\* the values random.random() can return, on the grid
RandomDraws == 0..(Grid - 1)

\* the values random.randint(low, high) can return (both ends included),
\* sampled near the two ends of the range
RandintAlt(lo, hi) ==
    (lo..Min(hi + 1, lo + Spread - 1)) \cup (Max(lo, hi + 2 - Spread)..(hi + 1))

randint(lo, hi) ==
    (lo..Min(hi, lo + Spread - 1)) \cup (Max(lo, hi - Spread + 1)..hi)

\* the branch random_cell takes: the first draw d1 is compared with flag1,
\* and a second, fresh draw d2 is compared with flag2
Branch(f1, f2, d1, d2) ==
    IF d1 < f1 THEN "formula"
    ELSE IF d2 < f2 THEN "numeric"
    ELSE "safe"

\* the values random_cell(f1, f2, lo, hi) can return with the draws d1, d2
random_cell(f1, f2, lo, hi, d1, d2) ==
    LET b == Branch(f1, f2, d1, d2) IN
    IF b = "formula" THEN {[branch |-> b, value |-> formula_like[i]] : i \in 1..Len(formula_like)}
    ELSE IF b = "numeric" THEN {[branch |-> b, value |-> Str(n)] : n \in randint(lo, hi)}
    ELSE {[branch |-> b, value |-> safe_text[j]] : j \in 1..Len(safe_text)}

\* every value random_cell() can return with its default arguments
DefaultCells ==
    UNION {random_cell(DefaultFlag1, DefaultFlag2, DefaultLow, DefaultHigh, d1, d2) :
              d1 \in RandomDraws, d2 \in RandomDraws}

\* the category of an output, read off the output itself
Category(s) ==
    IF s \in Range(formula_like) THEN "formula"
    ELSE IF IsNumeric(s) THEN "numeric"
    ELSE IF s \in Range(safe_text) THEN "safe"
    ELSE "other"

VARIABLES
    flag1, flag2, low, high,    \* the arguments of random_cell
    u1, u2,                     \* the draws of random.random() of the last call
    cell,                       \* the value the last call returned
    branch                      \* the branch the last call took

cellVars == <<flag1, flag2, low, high, u1, u2, cell, branch>>

\* the argument ranges tried: the default one and small ones around zero
Ranges ==
    {<<DefaultLow, DefaultHigh>>}
        \cup {r \in ((0 - MaxAbs)..MaxAbs) \X ((0 - MaxAbs)..MaxAbs) : r[1] <= r[2]}

CellIdle ==
    /\ flag1 = DefaultFlag1 /\ flag2 = DefaultFlag2
    /\ low = DefaultLow /\ high = DefaultHigh
    /\ u1 = 0 /\ u2 = 0 /\ cell = <<>> /\ branch = "none"

CellInit ==
    /\ flag1 \in 0..Grid /\ flag2 \in 0..Grid
    /\ \E r \in Ranges : low = r[1] /\ high = r[2]
    /\ u1 = 0 /\ u2 = 0 /\ cell = <<>> /\ branch = "none"

\* one call of random_cell(flag1, flag2, low, high)
RandomCell ==
    /\ branch = "none"
    /\ \E d1 \in RandomDraws, d2 \in RandomDraws :
         /\ u1' = d1 /\ u2' = d2
         /\ \E c \in random_cell(flag1, flag2, low, high, d1, d2) :
              cell' = c.value /\ branch' = c.branch
    /\ UNCHANGED <<flag1, flag2, low, high>>

(***************************************************************************)
(* csv.writer / csv.reader with the default dialect, and generate_csv      *)
(* (generate_risky_csv.py:31-39).                                          *)
(***************************************************************************)
\* QUOTE_MINIMAL: a field is quoted when it holds the delimiter, the quote
\* character or a character of the line terminator
NeedsQuote(field) == Range(field) \cap {",", "\"", "\r", "\n"} # {}

RECURSIVE DoubleQuotes(_)
DoubleQuotes(s) ==
    IF Len(s) = 0 THEN <<>>
    ELSE (IF Head(s) = "\"" THEN <<"\"", "\"">> ELSE <<Head(s)>>) \o DoubleQuotes(Tail(s))

QuoteField(field) ==
    IF NeedsQuote(field) THEN <<"\"">> \o DoubleQuotes(field) \o <<"\"">> ELSE field

RECURSIVE JoinFields(_)
JoinFields(fields) ==
    IF Len(fields) = 0 THEN <<>>
    ELSE IF Len(fields) = 1 THEN QuoteField(fields[1])
    ELSE QuoteField(fields[1]) \o <<",">> \o JoinFields(Tail(fields))

\* csv.writer.writerow: the record written for a list of fields; a single
\* empty field is written quoted, so that the record is not an empty line
writerow(fields) ==
    (IF Len(fields) = 1 /\ Len(fields[1]) = 0 THEN <<"\"", "\"">> ELSE JoinFields(fields))
        \o <<"\r", "\n">>

\* csv.reader on one record: the list of its fields.  st is the field being
\* read, inq says whether the reader is inside a quoted field.
RECURSIVE ReadFrom(_, _, _, _)
ReadFrom(s, acc, st, inq) ==
    IF Len(s) = 0 THEN Append(acc, st)
    ELSE LET c == Head(s) IN
         IF inq THEN
            IF c = "\"" THEN
               IF Len(s) >= 2 /\ s[2] = "\"" THEN ReadFrom(Tail(Tail(s)), acc, Append(st, c), TRUE)
               ELSE ReadFrom(Tail(s), acc, st, FALSE)
            ELSE ReadFrom(Tail(s), acc, Append(st, c), TRUE)
         ELSE IF c = "\"" /\ Len(st) = 0 THEN ReadFrom(Tail(s), acc, st, TRUE)
         ELSE IF c = "," THEN ReadFrom(Tail(s), Append(acc, st), <<>>, FALSE)
         ELSE IF c \in {"\r", "\n"} THEN Append(acc, st)
         ELSE ReadFrom(Tail(s), acc, Append(st, c), FALSE)

\* an empty line reads as the empty list
readrow(record) ==
    IF record = <<"\r", "\n">> THEN <<>> ELSE ReadFrom(record, <<>>, <<>>, FALSE)

\* header = [f"col{i}" for i in range(cols)]
HeaderAlt(ncols) == [i \in 1..ncols |-> <<"c", "o", "l">> \o Str(i)]

Header(ncols) == [i \in 1..ncols |-> <<"c", "o", "l">> \o Str(i - 1)]

VARIABLES
    rows, cols,     \* the arguments of generate_csv
    csvpc,          \* "header": file opened; "rows": in the loop; "done"
    headerRec,      \* the first record of the file
    widths,         \* the number of fields csv.reader finds in each record of
                    \* the file, in order
    written,        \* data rows written so far
    rowbuf          \* the cells of the row being built

csvVars == <<rows, cols, csvpc, headerRec, widths, written, rowbuf>>

CsvIdle ==
    /\ rows = 0 /\ cols = 0 /\ csvpc = "idle"
    /\ headerRec = <<>> /\ widths = <<>> /\ written = 0 /\ rowbuf = <<>>

\* open(path, "w") truncates the file
CsvInit ==
    /\ rows \in 0..MaxRows /\ cols \in 0..MaxCols /\ csvpc = "header"
    /\ headerRec = <<>> /\ widths = <<>> /\ written = 0 /\ rowbuf = <<>>

\* writer.writerow(header)
WriteHeader ==
    /\ csvpc = "header"
    /\ LET rec == writerow(Header(cols)) IN
         /\ headerRec' = rec
         /\ widths' = Append(widths, Len(readrow(rec)))
    /\ csvpc' = "rows"
    /\ UNCHANGED <<rows, cols, written, rowbuf>>

\* one random_cell() of the list built for a data row
NextCell ==
    /\ csvpc = "rows" /\ written < rows /\ Len(rowbuf) < cols
    /\ \E c \in DefaultCells : rowbuf' = Append(rowbuf, c.value)
    /\ UNCHANGED <<rows, cols, csvpc, headerRec, widths, written>>

\* writer.writerow([...]) of the loop body
WriteRow ==
    /\ csvpc = "rows" /\ written < rows /\ Len(rowbuf) = cols
    /\ LET rec == writerow(rowbuf) IN
         widths' = Append(widths, Len(readrow(rec)))
    /\ written' = written + 1
    /\ rowbuf' = <<>>
    /\ UNCHANGED <<rows, cols, csvpc, headerRec>>

\* the loop ends, the file is closed
CsvClose ==
    /\ csvpc = "rows" /\ written >= rows
    /\ csvpc' = "done"
    /\ UNCHANGED <<rows, cols, headerRec, widths, written, rowbuf>>

(***************************************************************************)
(* The lock/temp scanners: check_folder_integrity                           *)
(* (omarchy_check.py:90-115) and check_file_locks (arch_check.py:95-111).   *)
(* A path is the sequence of its components below the scanned directory.    *)
(***************************************************************************)
\* largest number of entries of a scanned tree
MaxEntries == 8

\* the entries a scanned tree is made of, in directory order
Entries ==
    << <<<<"a", ".", "t", "m", "p">>>>,
       <<<<"b", ".", "t", "m", "p">>>>,
       <<<<"c", ".", "t", "m", "p">>>>,
       <<<<"d", ".", "t", "m", "p">>>>,
       <<<<"a", ".", "l", "o", "c", "k">>>>,
       <<<<".", "l", "o", "c", "k">>>>,
       <<<<"A", ".", "T", "M", "P">>>>,
       <<<<"n", "o", "t", "e", "s", ".", "m", "d">>>>,
       <<<<"s", "u", "b">>>>,
       <<<<"s", "u", "b">>, <<"b", ".", "l", "o", "c", "k">>>>,
       <<<<"s", "u", "b">>, <<"c", ".", "l", "o", "c", "k">>>>,
       <<<<"s", "u", "b">>, <<"e", ".", "t", "m", "p">>>> >>

Name(p) == p[Len(p)]

EndsWith(s, suf) ==
    Len(s) >= Len(suf) /\ SubSeq(s, Len(s) - Len(suf) + 1, Len(s)) = suf

DotTmp == <<".", "t", "m", "p">>
DotLock == <<".", "l", "o", "c", "k">>

\* glob pattern "*<suf>" against the name of an entry
GlobMatchAlt(p, suf) == EndsWith(Name(p), suf) /\ Len(p) = 1

GlobMatch(p, suf) == EndsWith(Name(p), suf)

\* the index of the last "." of a name, 0 when it has none (str.rfind + 1)
LastDot(nm) ==
    LET dots == {i \in 1..Len(nm) : nm[i] = "."} IN
    IF dots = {} THEN 0 ELSE CHOOSE i \in dots : \A j \in dots : j <= i

\* pathlib's PurePath.suffix: the last dot-separated part of the name, empty
\* when the only dot leads or ends the name
Suffix(p) ==
    LET nm == Name(p) i == LastDot(nm) IN
    IF 1 < i /\ i < Len(nm) THEN SubSeq(nm, i, Len(nm)) ELSE <<>>

Reverse(s) == [i \in 1..Len(s) |-> s[Len(s) + 1 - i]]

\* s[:n]
Take(s, n) == SubSeq(s, 1, Min(n, Len(s)))

\* the orders in which a scan can yield the entries of a tree
ScanOrders(t) ==
    LET present(p) == p \in t
        fwd == SelectSeq(Entries, present)
    IN {fwd, Reverse(fwd)}

\* Path.rglob(pattern) over a scan
rglob(scan, suf) == LET hit(p) == GlobMatch(p, suf) IN SelectSeq(scan, hit)

VARIABLES
    tree,       \* the set of entries below the scanned directory
    exists,     \* whether the scanned directory exists
    writable,   \* os.access(path, os.W_OK)
    omSaid,     \* what check_folder_integrity printed, in order
    archSaid    \* what check_file_locks printed, in order

scanVars == <<tree, exists, writable, omSaid, archSaid>>

\* a tree holds the directory of every entry it holds
Closed(t) == \A p \in t : Len(p) > 1 => SubSeq(p, 1, Len(p) - 1) \in t

Trees == {t \in SUBSET Range(Entries) : Cardinality(t) <= MaxEntries /\ Closed(t)}

ScanIdle ==
    /\ tree = {} /\ exists = FALSE /\ writable = FALSE
    /\ omSaid = <<>> /\ archSaid = <<>>

ScanInit ==
    /\ exists \in BOOLEAN
    /\ tree \in (IF exists THEN Trees ELSE {{}})
    /\ writable \in (IF exists THEN BOOLEAN ELSE {FALSE})
    /\ omSaid = <<>> /\ archSaid = <<>>

Items(files) == [i \in 1..Len(files) |-> [kind |-> "item", path |-> files[i]]]

\* the listing and the notice of check_folder_integrity (lines 100-108)
FolderReport(tmp_files, lock_files) ==
    <<[kind |-> "found", tmp |-> Len(tmp_files), lock |-> Len(lock_files)]>>
        \o Items(Take(tmp_files, 3) \o Take(lock_files, 3))
        \o (IF Len(tmp_files) + Len(lock_files) > 6 THEN <<[kind |-> "omitted"]>> ELSE <<>>)

\* check_folder_integrity(path)
CheckFolderIntegrity ==
    /\ omSaid = <<>>
    /\ IF ~exists THEN omSaid' = <<[kind |-> "notfound"]>>
       ELSE \E scan \in ScanOrders(tree) :
              LET tmp_files == rglob(scan, DotTmp)
                  lock_files == rglob(scan, DotLock)
              IN omSaid' =
                   <<[kind |-> "scanning"]>>
                     \o (IF Len(tmp_files) > 0 \/ Len(lock_files) > 0
                           THEN FolderReport(tmp_files, lock_files)
                           ELSE <<[kind |-> "none"]>>)
                     \o <<[kind |-> IF writable THEN "writable" ELSE "denied"]>>
    /\ UNCHANGED <<tree, exists, writable, archSaid>>

\* the listing and the notice of check_file_locks (lines 103-107)
LocksReport(locks) ==
    <<[kind |-> "found", total |-> Len(locks)]>>
        \o Items(Take(locks, 5))
        \o (IF Len(locks) > 5 THEN <<[kind |-> "omitted"]>> ELSE <<>>)

\* check_file_locks(): a scan that raises is reported and ends the check
CheckFileLocks ==
    /\ archSaid = <<>>
    /\ \/ \E scan \in ScanOrders(tree) :
            LET hit(p) == Suffix(p) \in {DotLock, DotTmp}
                locks == SelectSeq(scan, hit)
            IN archSaid' = IF Len(locks) > 0 THEN LocksReport(locks) ELSE <<[kind |-> "none"]>>
       \/ archSaid' = <<[kind |-> "error"]>>
    /\ UNCHANGED <<tree, exists, writable, omSaid>>

(***************************************************************************)
(* bootstrap.py: the command wrapper Bootstrap.run_command (83-143),        *)
(* Bootstrap.install_reqs (145-169), the CLI callback main (217-263), the   *)
(* commands install-reqs (286-320) and init (323-356), clean_terminate      *)
(* (409-453) and the entry point cli_run (456-467).                         *)
(***************************************************************************)
\* largest signal number that kills a child (its returncode is then negative)
MaxSignal == 2
\* largest errno of an OSError
MaxErrno == 21

app_version == <<"0", ".", "0", ".", "4">>

UvInit == <<"u", "v", " ", "i", "n", "i", "t">>
TaskInit == <<"t", "a", "s", "k", " ", "-", "-", "i", "n", "i", "t">>
UvAddR == <<"u", "v", " ", "a", "d", "d", " ", "-", "r", " ">>
DefaultRequirementsFile == <<"r", "e", "q", "u", "i", "r", "e", "m", "e", "n", "t", "s", "-", "d", "e", "v", ".", "t", "x", "t">>

\* timeouts, in seconds
DefaultTimeout == 60
InitTimeout == 30
InstallTimeout == 300
\* the --timeout option of install-reqs: its default, and the values tried
TimeoutOptionDefault == 300
TimeoutOptions == {10, 300, 3600}

\* exit codes
RcGeneric == 1
RcMissingFile == 2
RcTimeout == 124
RcNotFound == 127
RcUnexpected == 255

\* how long a child runs, in seconds
Durations == {1, 20, 200, 4000}

\* subprocess returncode: the exit status, or -N when signal N killed the child
ReturnCodes == (0 - MaxSignal)..255

\* what a child writes to its standard error
StderrTexts == {<<>>, <<"\n">>, <<" ", "e", "r", "r", "\n">>}

\* What starting a child does: the executable is missing, the exec fails with
\* another OS error, or the child runs for some time and ends with a returncode.
Children ==
    {[kind |-> "notfound"]}
        \cup {[kind |-> "oserror", class |-> "PermissionError", errno |-> 13],
              [kind |-> "oserror", class |-> "OSError", errno |-> 8]}
        \cup {[kind |-> "runs", duration |-> d, returncode |-> rc, stderr |-> e] :
                 d \in Durations, rc \in ReturnCodes, e \in StderrTexts}

IsSpace(c) == c \in {" ", "\n", "\t", "\r"}

\* str.strip()
RECURSIVE LStrip(_)
LStrip(s) == IF Len(s) > 0 /\ IsSpace(Head(s)) THEN LStrip(Tail(s)) ELSE s

RECURSIVE RStrip(_)
RStrip(s) ==
    IF Len(s) > 0 /\ IsSpace(s[Len(s)]) THEN RStrip(SubSeq(s, 1, Len(s) - 1)) ELSE s

Strip(s) == RStrip(LStrip(s))

\* shlex.split of a command without quotes or escapes: its words
RECURSIVE SplitFrom(_, _, _)
SplitFrom(s, acc, word) ==
    IF Len(s) = 0 THEN (IF Len(word) > 0 THEN Append(acc, word) ELSE acc)
    ELSE IF IsSpace(Head(s))
           THEN SplitFrom(Tail(s), IF Len(word) > 0 THEN Append(acc, word) ELSE acc, <<>>)
           ELSE SplitFrom(Tail(s), acc, Append(word, Head(s)))

shlex_split(command) == SplitFrom(command, <<>>, <<>>)

\* Python values of the attributes read by clean_terminate
PyInt(n) == [type |-> "int", val |-> n]
PyStr(t) == [type |-> "str", text |-> t]
PyNone == [type |-> "NoneType"]

\* truth value of an Optional[str]
Truthy(v) == v.type = "str" /\ Len(v.text) > 0

\* BootstrapException(message, rc)
BootstrapException(message, rc) ==
    [class |-> "BootstrapException", rc |-> PyInt(rc), message |-> message]

\* an OSError (sub)class instance; its errno attribute always exists
OSErrorOf(class, errno) == [class |-> class, errno |-> errno]

\* typer.Exit(code)
TyperExit(code) == [class |-> "Exit", exit_code |-> code]

NoException == [class |-> "none"]

\* subprocess.run(command_list, capture_output, text=True, timeout, check):
\* what it does with a child
subprocess_run(command_list, capture_output, timeout, check, child) ==
    IF child.kind = "notfound" THEN [kind |-> "raise", class |-> "FileNotFoundError"]
    ELSE IF child.kind = "oserror"
      THEN [kind |-> "raise", class |-> child.class, errno |-> child.errno]
    ELSE IF child.duration > timeout THEN [kind |-> "raise", class |-> "TimeoutExpired"]
    ELSE IF check /\ child.returncode # 0
      THEN [kind |-> "raise", class |-> "CalledProcessError",
            returncode |-> child.returncode,
            stderr |-> IF capture_output THEN PyStr(child.stderr) ELSE PyNone]
    ELSE [kind |-> "return", returncode |-> child.returncode]

\* the children one run_command call starts: the one subprocess.run of its
\* try block, whatever its result r
SpawnedRetry(proc, r) == IF r.kind = "raise" THEN <<proc, proc>> ELSE <<proc>>

Spawned(proc, r) == <<proc>>

\* the rc given to the BootstrapException of a failed child: e.returncode
FailedRcAlt(r) == RcGeneric

FailedRc(r) == r.returncode

\* Bootstrap.run_command(command, timeout, check, capture_output): the result
\* (a return or the exception raised) and the children it started
run_command(command, timeout, check, capture_output, child) ==
    LET command_list == shlex_split(command)
        proc == [command |-> command, timeout |-> timeout, child |-> child]
        r == subprocess_run(command_list, capture_output, timeout, check, child)
    IN IF r.kind = "return"
         THEN [kind |-> "return", returncode |-> r.returncode, spawned |-> Spawned(proc, r)]
       ELSE IF r.class = "TimeoutExpired"
         THEN [kind |-> "raise", spawned |-> Spawned(proc, r),
               exc |-> BootstrapException(
                         <<"Command timed out after ">> \o Str(timeout) \o <<"s: ">> \o command,
                         RcTimeout)]
       ELSE IF r.class = "CalledProcessError"
         THEN [kind |-> "raise", spawned |-> Spawned(proc, r),
               exc |-> BootstrapException(
                         <<"Command failed with exit code ">> \o Str(r.returncode)
                             \o <<": ">> \o command
                             \o (IF Truthy(r.stderr)
                                   THEN <<"\nStderr: ">> \o Strip(r.stderr.text) ELSE <<>>),
                         FailedRc(r))]
       ELSE IF r.class = "FileNotFoundError"
         THEN [kind |-> "raise", spawned |-> Spawned(proc, r),
               exc |-> BootstrapException(
                         <<"Command not found: ">> \o command_list[1]
                             \o <<". Please ensure it's installed and in your PATH.">>,
                         RcNotFound)]
       ELSE [kind |-> "raise", spawned |-> Spawned(proc, r), exc |-> OSErrorOf(r.class, PyInt(r.errno))]

\* Bootstrap.install_reqs(requirements_file); file_exists is req_path.exists()
install_reqs(requirements_file, file_exists, child) ==
    IF ~file_exists
      THEN [kind |-> "raise", spawned |-> <<>>,
            exc |-> BootstrapException(<<"Requirements file not found: ">> \o requirements_file,
                                       RcMissingFile)]
      ELSE run_command(UvAddR \o requirements_file, InstallTimeout, TRUE, TRUE, child)

getattr(err, name, default) == IF name \in DOMAIN err THEN err[name] ELSE default

user_errors ==
    {"PermissionError", "FileExistsError", "FileNotFoundError", "InterruptedError",
     "IsADirectoryError", "NotADirectoryError", "BootstrapException"}

\* clean_terminate(err): the argument of the sys.exit it reaches, or the
\* exception that escapes from it
clean_terminate(err) ==
    IF err.class = "TimeoutExpired" THEN [kind |-> "exit", code |-> RcTimeout]
    ELSE IF err.class \in user_errors
      THEN LET rc == getattr(err, "rc", getattr(err, "errno", PyInt(RcGeneric))) IN
           IF rc.type = "int" THEN [kind |-> "exit", code |-> rc.val]
           ELSE [kind |-> "raise", class |-> "TypeError"]
    ELSE [kind |-> "exit", code |-> RcUnexpected]

\* the exit status the parent of the process sees for sys.exit(code)
ExitStatus(code) == code % 256

VARIABLES
    argv,       \* the parsed command line
    pc,         \* where the CLI run is
    ctxObj,     \* whether main created the Bootstrap object (ctx.obj)
    procs,      \* the children started so far, in order
    calls,      \* the run_command calls made so far, with their results
    raised,     \* the exception in flight at cli_run, NoException otherwise
    echoed,     \* what typer.echo / typer.secho printed, in order
    exitVia,    \* how the process ended: "sys.exit", "return" or "uncaught"
    exitArg     \* the exit code of the process

bootVars == <<argv, pc, ctxObj, procs, calls, raised, echoed, exitVia, exitArg>>

vars == <<cellVars, csvVars, scanVars, bootVars>>

NoArgv ==
    [command |-> "none", version |-> FALSE, skip_uv |-> FALSE, skip_task |-> FALSE,
     requirements_file |-> DefaultRequirementsFile, file_exists |-> TRUE,
     timeout |-> TimeoutOptionDefault]

\* the command lines tried
CommandLines ==
    {[NoArgv EXCEPT !.command = c, !.version = v] :
        c \in {"none", "init", "install-reqs"}, v \in {TRUE}}
    \cup {[NoArgv EXCEPT !.command = "init", !.skip_uv = su, !.skip_task = st] :
            su \in BOOLEAN, st \in BOOLEAN}
    \cup {[NoArgv EXCEPT !.command = "install-reqs", !.file_exists = fe, !.timeout = t] :
            fe \in BOOLEAN, t \in TimeoutOptions}

BootRest ==
    /\ ctxObj = FALSE /\ procs = <<>> /\ calls = <<>>
    /\ echoed = <<>> /\ exitVia = "none" /\ exitArg = 0

BootIdle == argv = NoArgv /\ pc = "idle" /\ raised = NoException /\ BootRest

BootInit == argv \in CommandLines /\ pc = "main" /\ raised = NoException /\ BootRest

Echo(stream, text) == [stream |-> stream, text |-> text]

CallRecord(command, timeout, check, child, res) ==
    [command |-> command, timeout |-> timeout, check |-> check, child |-> child,
     kind |-> res.kind, exc |-> IF res.kind = "raise" THEN res.exc ELSE NoException]

\* the callback main without the raise typer.Exit(0) after the version is
\* printed
MainAlt ==
    /\ pc = "main"
    /\ echoed' = IF argv.version
                   THEN Append(echoed, Echo("stdout", <<"Bootstrap CLI version ">> \o app_version))
                   ELSE echoed
    /\ ctxObj' = TRUE
    /\ pc' = (IF argv.command = "init" THEN "init_uv" ELSE "install")
    /\ UNCHANGED <<argv, procs, calls, raised, exitVia, exitArg>>

\* the callback main: the version flag ends the run before ctx.obj is set
Main ==
    /\ pc = "main"
    /\ IF argv.version
         THEN /\ echoed' = Append(echoed, Echo("stdout", <<"Bootstrap CLI version ">> \o app_version))
              /\ raised' = TyperExit(0)
              /\ pc' = "cli_run"
              /\ UNCHANGED ctxObj
         ELSE /\ ctxObj' = TRUE
              /\ pc' = (IF argv.command = "init" THEN "init_uv" ELSE "install")
              /\ UNCHANGED <<echoed, raised>>
    /\ UNCHANGED <<argv, procs, calls, exitVia, exitArg>>

\* the except clause of cli_init / cli_install_reqs and what escapes it:
\* a BootstrapException is printed and becomes typer.Exit(code=e.rc), any
\* other exception propagates to cli_run
EscapesAlt(exc) ==
    IF exc.class = "BootstrapException" THEN TyperExit(RcGeneric) ELSE exc

Escapes(exc) ==
    IF exc.class = "BootstrapException" THEN TyperExit(exc.rc.val) ELSE exc

\* where cli_init goes when a step raises: out of the try block, the steps
\* after it are skipped
FailPcAlt(nextpc) == nextpc

FailPc(nextpc) == "cli_run"

\* one step of the try block of cli_init that runs a command
InitStep(command, skip, announce, prefix, nextpc) ==
    IF skip
      THEN /\ pc' = nextpc
           /\ echoed' = echoed \o prefix
           /\ UNCHANGED <<procs, calls, raised>>
      ELSE \E child \in Children :
             LET res == run_command(command, InitTimeout, TRUE, TRUE, child) IN
             /\ procs' = procs \o res.spawned
             /\ calls' = Append(calls, CallRecord(command, InitTimeout, TRUE, child, res))
             /\ IF res.kind = "return"
                  THEN /\ pc' = nextpc
                       /\ echoed' = echoed \o prefix \o <<Echo("stdout", announce)>>
                       /\ UNCHANGED raised
                  ELSE /\ pc' = FailPc(nextpc)
                       /\ raised' = Escapes(res.exc)
                       /\ echoed' = echoed \o prefix \o <<Echo("stdout", announce)>>
                            \o (IF res.exc.class = "BootstrapException"
                                  THEN <<Echo("stderr", <<"Initialization failed: ">> \o res.exc.message)>>
                                  ELSE <<>>)

\* cli_init up to the end of the UV step
InitUv ==
    /\ pc = "init_uv"
    /\ InitStep(UvInit, argv.skip_uv, <<"Initializing UV...">>,
                <<Echo("stdout", <<"Initializing project...">>)>>, "init_task")
    /\ UNCHANGED <<argv, ctxObj, exitVia, exitArg>>

\* the Task step of cli_init
InitTask ==
    /\ pc = "init_task"
    /\ InitStep(TaskInit, argv.skip_task, <<"Initializing Task...">>, <<>>, "init_ok")
    /\ UNCHANGED <<argv, ctxObj, exitVia, exitArg>>

\* the end of the try block of cli_init
InitSuccess ==
    /\ pc = "init_ok"
    /\ echoed' = Append(echoed, Echo("stdout", <<"Project initialized successfully!">>))
    /\ pc' = "returned"
    /\ UNCHANGED <<argv, ctxObj, procs, calls, raised, exitVia, exitArg>>

\* cli_install_reqs: the --timeout option is not passed on
InstallReqs ==
    /\ pc = "install"
    /\ \E child \in (IF argv.file_exists THEN Children ELSE {[kind |-> "notfound"]}) :
         LET res == install_reqs(argv.requirements_file, argv.file_exists, child) IN
         /\ procs' = procs \o res.spawned
         /\ calls' = IF Len(res.spawned) > 0
                       THEN Append(calls, CallRecord(UvAddR \o argv.requirements_file,
                                                     InstallTimeout, TRUE, child, res))
                       ELSE calls
         /\ IF res.kind = "return"
              THEN /\ pc' = "returned"
                   /\ echoed' = Append(echoed, Echo("stdout", <<"Requirements installed successfully!">>))
                   /\ UNCHANGED raised
              ELSE /\ pc' = "cli_run"
                   /\ raised' = Escapes(res.exc)
                   /\ echoed' = IF res.exc.class = "BootstrapException"
                                  THEN Append(echoed, Echo("stderr", res.exc.message))
                                  ELSE echoed
    /\ UNCHANGED <<argv, ctxObj, exitVia, exitArg>>

\* cli_app() returns: the process ends with status 0
Return ==
    /\ pc = "returned"
    /\ pc' = "exited" /\ exitVia' = "return" /\ exitArg' = 0
    /\ UNCHANGED <<argv, ctxObj, procs, calls, raised, echoed>>

\* cli_run, except typer.Exit: sys.exit(e.exit_code)
CliRunExit ==
    /\ pc = "cli_run" /\ raised.class = "Exit"
    /\ pc' = "exited" /\ exitVia' = "sys.exit" /\ exitArg' = raised.exit_code
    /\ UNCHANGED <<argv, ctxObj, procs, calls, raised, echoed>>

\* cli_run, except Exception: clean_terminate(err).  An exception escaping
\* from clean_terminate is uncaught: the interpreter prints the traceback and
\* ends the process with status 1.
CleanTerminate ==
    /\ pc = "cli_run" /\ raised.class \notin {"Exit", "none"}
    /\ LET t == clean_terminate(raised) IN
         IF t.kind = "exit"
           THEN exitVia' = "sys.exit" /\ exitArg' = t.code
           ELSE exitVia' = "uncaught" /\ exitArg' = 1
    /\ pc' = "exited"
    /\ UNCHANGED <<argv, ctxObj, procs, calls, raised, echoed>>

\* one call of Bootstrap.run_command with any arguments
RunCommandCall ==
    /\ pc = "call"
    /\ \E command \in {UvInit, TaskInit}, timeout \in {DefaultTimeout, InitTimeout},
          check \in BOOLEAN, capture_output \in BOOLEAN, child \in Children :
         LET res == run_command(command, timeout, check, capture_output, child) IN
         /\ procs' = procs \o res.spawned
         /\ calls' = Append(calls, CallRecord(command, timeout, check, child, res))
         /\ raised' = IF res.kind = "raise" THEN res.exc ELSE raised
    /\ pc' = "called"
    /\ UNCHANGED <<argv, ctxObj, echoed, exitVia, exitArg>>

OSErrorClasses == (user_errors \ {"BootstrapException"}) \cup {"OSError"}

\* the exceptions clean_terminate is tried on
Exceptions ==
    {[class |-> c] : c \in {"TimeoutExpired", "ValueError", "KeyError", "TypeError"}}
        \cup {OSErrorOf(c, e) : c \in OSErrorClasses,
                                e \in {PyNone} \cup {PyInt(n) : n \in 1..MaxErrno}}
        \cup {BootstrapException(<<"failed">>, rc) : rc \in ReturnCodes}

(***************************************************************************)
(* The specifications, one per program.                                    *)
(***************************************************************************)
\* random_cell called again and again with the arguments chosen at the start
SamplerInit == CellInit /\ CsvIdle /\ ScanIdle /\ BootIdle
SamplerNext == RandomCell /\ UNCHANGED <<csvVars, scanVars, bootVars>>
SamplerSpec == SamplerInit /\ [][SamplerNext]_vars

\* one run of generate_csv
CsvSpecInit == CellIdle /\ CsvInit /\ ScanIdle /\ BootIdle
CsvNext ==
    \/ WriteHeader /\ UNCHANGED <<cellVars, scanVars, bootVars>>
    \/ NextCell /\ UNCHANGED <<cellVars, scanVars, bootVars>>
    \/ WriteRow /\ UNCHANGED <<cellVars, scanVars, bootVars>>
    \/ CsvClose /\ UNCHANGED <<cellVars, scanVars, bootVars>>
CsvSpec == CsvSpecInit /\ [][CsvNext]_vars

\* the two scanners, each run once on the same tree
ScanSpecInit == CellIdle /\ CsvIdle /\ ScanInit /\ BootIdle
ScanNext ==
    \/ CheckFolderIntegrity /\ UNCHANGED <<cellVars, csvVars, bootVars>>
    \/ CheckFileLocks /\ UNCHANGED <<cellVars, csvVars, bootVars>>
ScanSpec == ScanSpecInit /\ [][ScanNext]_vars

\* one run of the bootstrap CLI
Init == CellIdle /\ CsvIdle /\ ScanIdle /\ BootInit
Next ==
    \/ Main /\ UNCHANGED <<cellVars, csvVars, scanVars>>
    \/ InitUv /\ UNCHANGED <<cellVars, csvVars, scanVars>>
    \/ InitTask /\ UNCHANGED <<cellVars, csvVars, scanVars>>
    \/ InitSuccess /\ UNCHANGED <<cellVars, csvVars, scanVars>>
    \/ InstallReqs /\ UNCHANGED <<cellVars, csvVars, scanVars>>
    \/ Return /\ UNCHANGED <<cellVars, csvVars, scanVars>>
    \/ CliRunExit /\ UNCHANGED <<cellVars, csvVars, scanVars>>
    \/ CleanTerminate /\ UNCHANGED <<cellVars, csvVars, scanVars>>
Spec == Init /\ [][Next]_vars

\* Bootstrap.run_command on its own
RunInit == CellIdle /\ CsvIdle /\ ScanIdle /\ argv = NoArgv /\ pc = "call" /\ raised = NoException /\ BootRest
RunNext == RunCommandCall /\ UNCHANGED <<cellVars, csvVars, scanVars>>
RunSpec == RunInit /\ [][RunNext]_vars

\* cli_run with any exception escaping from cli_app()
TermInit == CellIdle /\ CsvIdle /\ ScanIdle /\ argv = NoArgv /\ pc = "cli_run" /\ raised \in Exceptions /\ BootRest
TermNext == CleanTerminate /\ UNCHANGED <<cellVars, csvVars, scanVars>>
TermSpec == TermInit /\ [][TermNext]_vars

(***************************************************************************)
(* Properties of random_cell (SamplerSpec).                                *)
(***************************************************************************)
\* the number of equally likely pairs of draws that make random_cell take
\* branch b with the thresholds f1, f2
Outcomes(f1, f2, b) ==
    Cardinality({d \in RandomDraws \X RandomDraws : Branch(f1, f2, d[1], d[2]) = b})

\* C1: with flag1 < flag2, the category of the value returned is decided by
\* the one draw u compared with flag1: formula-like when u < flag1, numeric
\* when flag1 <= u < flag2, a benign word when u >= flag2.
C1_SingleDraw ==
    (branch # "none" /\ flag1 < flag2) =>
        /\ (u1 < flag1 => Category(cell) = "formula")
        /\ (flag1 <= u1 /\ u1 < flag2 => Category(cell) = "numeric")
        /\ (u1 >= flag2 => Category(cell) = "safe")

\* C2: with flag1 < flag2 <= 1, the fraction of the equally likely outcomes of
\* the draws that give a formula-like value is flag1, the fraction that give a
\* numeric value is flag2 - flag1, and the rest, 1 - flag2, give a benign word.
C2_Fractions ==
    (branch # "none" /\ flag1 < flag2) =>
        /\ Outcomes(flag1, flag2, "formula") * Grid = flag1 * Grid * Grid
        /\ Outcomes(flag1, flag2, "numeric") * Grid = (flag2 - flag1) * Grid * Grid
        /\ Outcomes(flag1, flag2, "safe") * Grid = (Grid - flag2) * Grid * Grid

\* C3 as stated: every numeric value returned, whichever branch returned it,
\* is the decimal string of an integer within [low, high].
C3_NumericInRange ==
    (branch # "none" /\ IsNumeric(cell)) =>
        (low <= ParseInt(cell) /\ ParseInt(cell) <= high)

MinusPoolEntry == <<"-", "1", "2", "3", "4", "5">>

\* C3 amended: every value returned by the numeric branch is the decimal
\* string of an integer within [low, high]; the only numeric string another
\* branch returns is the entry "-12345" of the formula-like pool.
C3_NumericBranchInRange ==
    /\ branch = "numeric" =>
         /\ IsNumeric(cell)
         /\ low <= ParseInt(cell) /\ ParseInt(cell) <= high
         /\ \A i \in 1..Len(cell) : i > 1 => IsDigit(cell[i])
         /\ (Len(cell) > 1 => cell[1] # "0") /\ cell[1] # "+"
    /\ (branch \in {"formula", "safe"} /\ IsNumeric(cell)) =>
         (branch = "formula" /\ cell = MinusPoolEntry)

\* the numeric branch returned the upper end of the default range
C3_Witness ==
    branch = "numeric" /\ high = DefaultHigh /\ ParseInt(cell) = high /\ Len(cell) = 5

(***************************************************************************)
(* Properties of generate_csv (CsvSpec).                                   *)
(***************************************************************************)
\* C4: for every rows >= 0 and cols >= 0 the file holds one header record,
\* col0 .. col{cols-1}, followed by exactly rows data records, and every
\* record, the header included, has exactly cols fields.
C4_CsvShape ==
    /\ \A i \in 1..Len(widths) : widths[i] = cols
    /\ csvpc \in {"rows", "done"} =>
         /\ Len(widths) = 1 + written
         /\ Len(readrow(headerRec)) = cols
         /\ \A i \in 1..cols : readrow(headerRec)[i] = <<"c", "o", "l">> \o Str(i - 1)
    /\ csvpc = "done" => Len(widths) = 1 + rows

\* a file with several rows of several cells has been written and closed
C4_Witness == csvpc = "done" /\ rows >= 2 /\ cols >= 2 /\ Len(widths) = rows + 1

(***************************************************************************)
(* Properties of the scanners (ScanSpec).                                  *)
(***************************************************************************)
\* the entries of the tree whose name ends with suf
Ending(suf) == {p \in tree : EndsWith(Name(p), suf)}

\* the entries of the tree whose name is a non-empty stem followed by suf
Suffixed(suf) == {p \in Ending(suf) : Len(Name(p)) > Len(suf)}

OfKind(said, k) == SelectSeq(said, LAMBDA m : m.kind = k)

Listed(said) == {m.path : m \in Range(OfKind(said, "item"))}

FolderRan == Len(omSaid) > 0 /\ exists
LocksRan == Len(archSaid) > 0 /\ archSaid[1].kind # "error"

\* C5 as stated: no lock/temp files are reported for an empty tree; otherwise
\* the count reported is the number of .lock/.tmp entries of the tree and each
\* of these entries is reported.
C5_EveryEntryReported ==
    /\ FolderRan =>
         IF Ending(DotTmp) \cup Ending(DotLock) = {}
           THEN Len(OfKind(omSaid, "none")) = 1 /\ Len(OfKind(omSaid, "found")) = 0
           ELSE /\ Len(OfKind(omSaid, "found")) = 1
                /\ LET m == OfKind(omSaid, "found")[1] IN
                     m.tmp + m.lock = Cardinality(Ending(DotTmp)) + Cardinality(Ending(DotLock))
                /\ Ending(DotTmp) \cup Ending(DotLock) \subseteq Listed(omSaid)
    /\ LocksRan =>
         IF Suffixed(DotTmp) \cup Suffixed(DotLock) = {}
           THEN Len(OfKind(archSaid, "none")) = 1 /\ Len(OfKind(archSaid, "found")) = 0
           ELSE /\ Len(OfKind(archSaid, "found")) = 1
                /\ OfKind(archSaid, "found")[1].total
                     = Cardinality(Suffixed(DotTmp) \cup Suffixed(DotLock))
                /\ Suffixed(DotTmp) \cup Suffixed(DotLock) \subseteq Listed(archSaid)

\* C5 amended: no lock/temp files are reported for an empty tree; otherwise
\* the counts reported are the numbers of entries found anywhere in the tree
\* (check_folder_integrity: names ending in .tmp and names ending in .lock;
\* check_file_locks: names with a non-empty stem and the suffix .lock or
\* .tmp), and the entries listed are found entries, without repetition: the
\* first 3 .tmp and the first 3 .lock ones, respectively the first 5.
C5_CountsAndListing ==
    /\ FolderRan =>
         IF Ending(DotTmp) \cup Ending(DotLock) = {}
           THEN /\ Len(OfKind(omSaid, "none")) = 1
                /\ Len(OfKind(omSaid, "found")) = 0 /\ Len(OfKind(omSaid, "item")) = 0
           ELSE /\ Len(OfKind(omSaid, "found")) = 1 /\ Len(OfKind(omSaid, "none")) = 0
                /\ LET m == OfKind(omSaid, "found")[1] IN
                     /\ m.tmp = Cardinality(Ending(DotTmp))
                     /\ m.lock = Cardinality(Ending(DotLock))
                /\ Listed(omSaid) \subseteq Ending(DotTmp) \cup Ending(DotLock)
                /\ Cardinality(Listed(omSaid) \cap Ending(DotTmp))
                     = Min(3, Cardinality(Ending(DotTmp)))
                /\ Cardinality(Listed(omSaid) \cap Ending(DotLock))
                     = Min(3, Cardinality(Ending(DotLock)))
                /\ Len(OfKind(omSaid, "item")) = Cardinality(Listed(omSaid))
    /\ LocksRan =>
         LET hits == Suffixed(DotTmp) \cup Suffixed(DotLock) IN
         IF hits = {}
           THEN /\ Len(OfKind(archSaid, "none")) = 1
                /\ Len(OfKind(archSaid, "found")) = 0 /\ Len(OfKind(archSaid, "item")) = 0
           ELSE /\ Len(OfKind(archSaid, "found")) = 1 /\ Len(OfKind(archSaid, "none")) = 0
                /\ OfKind(archSaid, "found")[1].total = Cardinality(hits)
                /\ Listed(archSaid) \subseteq hits
                /\ Cardinality(Listed(archSaid)) = Min(5, Cardinality(hits))
                /\ Len(OfKind(archSaid, "item")) = Cardinality(Listed(archSaid))

\* both scanners ran on a tree with nested entries and more .tmp entries
\* than either lists
C5_Witness ==
    /\ FolderRan /\ LocksRan
    /\ Cardinality(Ending(DotTmp)) >= 4 /\ Cardinality(Suffixed(DotLock)) >= 2
    /\ \E p \in Listed(omSaid) : Len(p) > 1
    /\ Cardinality(Listed(archSaid)) = 5

(***************************************************************************)
(* Properties of Bootstrap.run_command (RunSpec).                          *)
(***************************************************************************)
\* the child did not finish within the timeout of its run
Overran(run) == run.child.kind = "runs" /\ run.child.duration > run.timeout

\* the child ended within the timeout with a non-zero returncode
Failed(run) ==
    run.child.kind = "runs" /\ run.child.duration <= run.timeout /\ run.child.returncode # 0

RaisedBootstrap(call, rc) ==
    call.kind = "raise" /\ call.exc.class = "BootstrapException" /\ call.exc.rc = PyInt(rc)

\* C6: a run_command call whose child does not finish within the timeout
\* raises BootstrapException with rc 124, one whose executable does not exist
\* raises BootstrapException with rc 127; neither returns normally and neither
\* starts the command a second time.
C6_TimeoutAndNotFound ==
    \A i \in 1..Len(calls) :
        /\ Overran(calls[i]) => RaisedBootstrap(calls[i], 124)
        /\ calls[i].child.kind = "notfound" => RaisedBootstrap(calls[i], 127)
        /\ (Overran(calls[i]) \/ calls[i].child.kind = "notfound") =>
              Cardinality({j \in 1..Len(procs) : procs[j].command = calls[i].command}) = 1

\* a call made with check=False whose child overran its timeout
C6_Witness ==
    /\ Len(calls) = 1 /\ Overran(calls[1]) /\ ~calls[1].check
    /\ calls[1].kind = "raise" /\ pc = "called"

(***************************************************************************)
(* Properties of the CLI run (Spec).                                       *)
(***************************************************************************)
SomeOverran == \E i \in 1..Len(procs) : Overran(procs[i])
SomeNotFound == \E i \in 1..Len(procs) : procs[i].child.kind = "notfound"
\* an error that is neither a timeout nor one of the expected user errors
Unclassified ==
    raised.class \notin (user_errors \cup {"Exit", "none", "TimeoutExpired"})
\* a child ended by itself with a returncode that is k as an exit status
ChildStatus(k) ==
    \E i \in 1..Len(procs) : Failed(procs[i]) /\ procs[i].child.returncode % 256 = k

\* C7 as stated: the process exits with 124 only if a wrapped command timed
\* out, with 127 only if a wrapped executable was not found and with 255 only
\* for an unclassified error, so that the exit code tells the classes apart.
C7_CodesTellClasses ==
    pc = "exited" =>
        /\ ExitStatus(exitArg) = 124 => SomeOverran
        /\ ExitStatus(exitArg) = 127 => SomeNotFound
        /\ ExitStatus(exitArg) = 255 => Unclassified

\* C7 amended: a timeout always gives exit status 124, a missing executable
\* 127 and an unclassified error 255; the process exits with 124, 127 or 255
\* only for that class or because a wrapped command itself ended with a
\* returncode equal to that status modulo 256, which is passed through.
C7_CodesOrChildStatus ==
    pc = "exited" =>
        /\ SomeOverran => ExitStatus(exitArg) = 124
        /\ SomeNotFound => ExitStatus(exitArg) = 127
        /\ Unclassified => ExitStatus(exitArg) = 255
        /\ ExitStatus(exitArg) = 124 => (SomeOverran \/ ChildStatus(124))
        /\ ExitStatus(exitArg) = 127 => (SomeNotFound \/ ChildStatus(127))
        /\ ExitStatus(exitArg) = 255 => (Unclassified \/ ChildStatus(255))

\* the run ended with 124 although no command timed out
C7_Witness ==
    pc = "exited" /\ exitArg = 124 /\ ~SomeOverran /\ ChildStatus(124) /\ Len(procs) = 2

Contains(s, sub) ==
    \E k \in 0..(Len(s) - Len(sub)) : SubSeq(s, k + 1, k + Len(sub)) = sub

\* C8: a wrapped command that ends with a non-zero returncode c makes
\* run_command raise BootstrapException with rc = c and a message that carries
\* the child's standard error, and the init / install-reqs command ends the
\* process with exit code c.
C8_ChildFailureSurfaced ==
    \A i \in 1..Len(calls) :
        (Failed(calls[i]) /\ calls[i].check) =>
            /\ RaisedBootstrap(calls[i], calls[i].child.returncode)
            /\ Contains(calls[i].exc.message, Strip(calls[i].child.stderr))
            /\ Len(calls[i].child.stderr) > 0 =>
                 EndsWith(calls[i].exc.message,
                          <<"\nStderr: ">> \o Strip(calls[i].child.stderr))
            /\ pc = "exited" =>
                 /\ exitVia = "sys.exit" /\ exitArg = calls[i].child.returncode
                 /\ calls[i].child.returncode > 0 =>
                      ExitStatus(exitArg) = calls[i].child.returncode

\* init ended with the exit status 3 of task --init, whose standard error is
\* in the message printed
C8_Witness ==
    /\ pc = "exited" /\ argv.command = "init" /\ Len(calls) = 2
    /\ Failed(calls[2]) /\ calls[2].child.returncode = 3 /\ exitArg = 3
    /\ Strip(calls[2].child.stderr) = <<"e", "r", "r">>
    /\ \E i \in 1..Len(echoed) :
         echoed[i].stream = "stderr" /\ Contains(echoed[i].text, <<"e", "r", "r">>)

SuccessEchoed ==
    \E i \in 1..Len(echoed) :
        echoed[i].text \in {<<"Project initialized successfully!">>,
                            <<"Requirements installed successfully!">>}

UvFailed == \E i \in 1..Len(calls) : calls[i].command = UvInit /\ calls[i].kind = "raise"

\* C9: nothing is retried and a failure ends the command: once uv init has
\* failed, task --init is never started and the success message is never
\* printed; a failed run_command is the last one of the run; each external
\* command is started at most once.
C9_NoRetryFailureTerminal ==
    /\ \A i, j \in 1..Len(procs) : i < j => procs[i].command # procs[j].command
    /\ UvFailed => /\ \A i \in 1..Len(procs) : procs[i].command # TaskInit
                   /\ ~SuccessEchoed
    /\ \A i \in 1..Len(calls) :
         calls[i].kind = "raise" =>
            /\ i = Len(calls) /\ pc \in {"cli_run", "exited"}
            /\ ~SuccessEchoed /\ exitVia # "return"

\* init ended after uv init timed out, with the Task step not skipped
C9_Witness ==
    /\ pc = "exited" /\ argv.command = "init" /\ ~argv.skip_task
    /\ UvFailed /\ Overran(calls[1]) /\ Len(procs) = 1

(***************************************************************************)
(* Properties of clean_terminate (TermSpec).                               *)
(***************************************************************************)
\* the exit code the class of an exception calls for
ExpectedCode(err) ==
    IF err.class = "TimeoutExpired" THEN 124
    ELSE IF err.class \in {"PermissionError", "FileExistsError", "FileNotFoundError",
                           "InterruptedError", "IsADirectoryError", "NotADirectoryError",
                           "BootstrapException"}
      THEN IF "rc" \in DOMAIN err THEN err.rc.val
           ELSE IF "errno" \in DOMAIN err /\ err.errno.type = "int" THEN err.errno.val
           ELSE 1
    ELSE 255

\* C10: clean_terminate(err) always ends the process through sys.exit with
\* the code of the class of err: 124 for a timeout; the rc, else the errno,
\* else 1 for an expected error; 255 for anything else, OS errors made
\* without an errno included.
C10_ExitCodeByClass ==
    pc = "exited" => (exitVia = "sys.exit" /\ exitArg = ExpectedCode(raised))

(***************************************************************************)
(* The version flag (Spec).                                                *)
(***************************************************************************)
VersionLine ==
    <<"Bootstrap CLI version ", "0", ".", "0", ".", "4">>

\* C11: a run with the version flag prints the version string and nothing
\* else, exits with code 0, and on that run no Bootstrap object is created,
\* no subcommand body runs and no external command is started.
C11_VersionOnly ==
    argv.version =>
        /\ ~ctxObj /\ Len(procs) = 0 /\ Len(calls) = 0
        /\ pc \in {"main", "cli_run", "exited"}
        /\ pc # "main" => echoed = <<[stream |-> "stdout", text |-> VersionLine]>>
        /\ pc = "exited" => (exitVia = "sys.exit" /\ exitArg = 0 /\ ExitStatus(exitArg) = 0)

\* a run of init with the version flag has ended
C11_Witness ==
    /\ argv.version /\ argv.command = "init" /\ pc = "exited"
    /\ Len(echoed) = 1 /\ exitArg = 0

(***************************************************************************)
(* The --timeout option of install-reqs (Spec).                            *)
(***************************************************************************)
\* C12: install-reqs runs uv add -r <file> with the value t of its --timeout
\* option as the timeout: an installation that takes longer than t seconds is
\* aborted with a timeout failure, one that takes no longer is not.
C12_TimeoutOptionApplied ==
    (argv.command = "install-reqs" /\ ~argv.version) =>
        \A i \in 1..Len(calls) :
            /\ calls[i].timeout = argv.timeout
            /\ calls[i].child.kind = "runs" =>
                 (calls[i].child.duration > argv.timeout <=> RaisedBootstrap(calls[i], 124))

(***************************************************************************)
(* The omitted notice of the scanners (ScanSpec).                          *)
(***************************************************************************)
Noticed(said) == Len(OfKind(said, "omitted")) > 0

\* C13: in both scanners the "more files omitted" line is printed if and only
\* if fewer files are listed than were found.
C13_NoticeIffOmitted ==
    /\ (FolderRan /\ Len(OfKind(omSaid, "found")) = 1) =>
         LET m == OfKind(omSaid, "found")[1] IN
         Noticed(omSaid) <=> (Len(OfKind(omSaid, "item")) < m.tmp + m.lock)
    /\ (LocksRan /\ Len(OfKind(archSaid, "found")) = 1) =>
         (Noticed(archSaid)
            <=> (Len(OfKind(archSaid, "item")) < OfKind(archSaid, "found")[1].total))

====
